---- MODULE Spec2Model ----
(***************************************************************************)
(* A model of the churn-prevention-analytics batch stages:                 *)
(*   src/src/data/generate_data.py      (synthetic data generator)         *)
(*   src/src/features/build_features.py (ChurnFeaturePipeline)             *)
(*   src/src/models/train_model.py      (ChurnPredictor)                   *)
(* Tables (pandas DataFrames, CSV files) are records                       *)
(*   [some |-> TRUE, cols |-> sequence of column names (the header),       *)
(*    rows |-> sequence of functions from the column names to cells]       *)
(* and None / a missing file is [some |-> FALSE].  A cell is a number      *)
(* [num |-> n] or a string [str |-> s].                                    *)
(***************************************************************************)
EXTENDS Integers, Sequences, FiniteSets, TLC

VARIABLES
    df,         \* ChurnFeaturePipeline.self.df
    disk,       \* the files under data/: raw, analytical, model_input, gold, and whether output_dir exists
    raised,     \* the exception the last top-level call ended with (NoError when it returned)
    called,     \* the methods entered by the last top-level call, in order
    loaded,     \* history: some load_data call of the feature pipeline has returned normally
    predictor,  \* ChurnPredictor: self.df_ml, self.df_analytical, self.model, self.df_final
    gen,        \* the generator: the frame its functions pass on, and the (probability,
                \* uniform draw) pairs the last inject_churn_logic sampled the labels with
    procs,      \* the processes that have imported generate_data.py: their global random
                \* generators, the frame in progress and the outputs of their executions
    lib         \* what scikit-learn, shap and numpy return for this data: the split, the
                \* class-1 probabilities, the attribution output, the rounding of float ties

vars == <<df, disk, raised, called, loaded, predictor, gen, procs, lib>>

(***************************************************************************)
(* Bounds of the model.                                                    *)
(***************************************************************************)
MaxRows == 3
MaxTenure == 80
MaxAttr == 2
ProbRadius == 1
MaxCustomers == 1
MaxEncoded == 3
MaxExecutions == 2

(***************************************************************************)
(* Values.                                                                 *)
(***************************************************************************)
None == [some |-> FALSE]
NoFile == [some |-> FALSE]
Table(cols, rows) == [some |-> TRUE, cols |-> cols, rows |-> rows]
Num(n) == [num |-> n]
Str(s) == [str |-> s]
IsStr(cell) == DOMAIN cell = {"str"}

NoError == [type |-> "none", arg |-> ""]
Exception(type, arg) == [type |-> type, arg |-> arg]

\* A world: what one method call reads and writes.
Raise(w, type, arg) == [w EXCEPT !.raised = Exception(type, arg)]
Enter(w, method) == [w EXCEPT !.called = Append(@, method)]
\* Statement sequencing under Python's exception propagation.
Then(w, M(_)) == IF w.raised # NoError THEN w ELSE M(w)

RECURSIVE SeqsUpTo(_, _)
SeqsUpTo(S, n) ==
    IF n = 0 THEN {<<>>}
    ELSE LET shorter == SeqsUpTo(S, n - 1)
         IN shorter \cup {Append(s, x) : s \in {t \in shorter : Len(t) = n - 1}, x \in S}

Range(s) == {s[i] : i \in DOMAIN s}
Columns(t) == Range(t.cols)

\* df[c] = df.apply(F): overwrite column c, or add it as the last column, row by row.
SetColumn(t, c, F(_)) ==
    [t EXCEPT !.cols = IF c \in Range(@) THEN @ ELSE Append(@, c),
              !.rows = [i \in DOMAIN t.rows |->
                          [k \in Columns(t) \cup {c} |->
                              IF k = c THEN F(t.rows[i]) ELSE t.rows[i][k]]]]

\* df.drop(columns=[c for c in drop if c in df.columns])
DropColumns(t, drop) ==
    [t EXCEPT !.cols = SelectSeq(@, LAMBDA c : c \notin drop),
              !.rows = [i \in DOMAIN t.rows |-> [k \in Columns(t) \ drop |-> t.rows[i][k]]]]

\* Probabilities are integers in units of 1e-7: Unit is 1.0.
Unit == 10 * 1000 * 1000

Unset == [some |-> FALSE]
NewPredictor == [df_ml |-> Unset, df_analytical |-> Unset, model |-> None, df_final |-> Unset]
NoLib == [test_rows |-> {}, proba |-> <<>>, tie_up |-> FALSE, shap_values |-> [kind |-> "list", items |-> <<>>]]

NoGen == [df |-> None, drawn |-> <<>>]
NoProcs == <<>>

(***************************************************************************)
(* generate_data.py.  Money is in cents, the noise in tenths of a cent,    *)
(* churn probabilities and uniform draws in hundredths.  The random draws  *)
(* are inputs of the functions.                                            *)
(***************************************************************************)
ProfileColumns ==
    <<"customer_id", "gender", "senior_citizen", "partner", "dependents", "tenure_months",
      "phone_service", "multiple_lines", "internet_service", "contract", "paperless_billing",
      "payment_method", "monthly_charges">>

\* df[c] = f(index, row), elementwise.
SetColumnAt(t, c, F(_, _)) ==
    [t EXCEPT !.cols = IF c \in Range(@) THEN @ ELSE Append(@, c),
              !.rows = [i \in DOMAIN t.rows |->
                          [k \in Columns(t) \cup {c} |->
                              IF k = c THEN F(i, t.rows[i]) ELSE t.rows[i][k]]]]

\* One profile per draw; phone_service is always "Yes".
generate_customer_profiles(draws) ==
    Table(ProfileColumns,
          [i \in DOMAIN draws |->
              [c \in Range(ProfileColumns) |->
                  IF c = "phone_service" THEN Str("Yes") ELSE draws[i][c]]])

\* round(x, 2) of an amount in tenths of a cent: the nearest cent, a half to the even cent.
round2(x) ==
    LET q == x \div 10
        r == x % 10
    IN IF r < 5 THEN q
       ELSE IF r > 5 THEN q + 1
       ELSE IF q % 2 = 0 THEN q ELSE q + 1

max(a, b) == IF a >= b THEN a ELSE b

calculate_total_charges(t, noise) ==
    SetColumnAt(t, "total_charges",
        LAMBDA i, row :
            Num(max(0, round2(row["tenure_months"].num * row["monthly_charges"].num * 10
                               + noise[i]))))

\* Series.clip without the bounds.
clip_unclipped(x, lo, hi) ==
    x

clip(x, lo, hi) ==
    IF x < lo THEN lo ELSE IF x > hi THEN hi ELSE x

\* churn_probability of one row before clipping, in hundredths.
churn_probability(row) ==
    20
    + (IF row["contract"] = Str("Month-to-month") THEN 40 ELSE 0)
    + (IF row["internet_service"] = Str("Fiber optic") THEN 15 ELSE 0)
    + (IF row["payment_method"] = Str("Electronic check") THEN 10 ELSE 0)
    + (IF row["tenure_months"].num < 12 /\ row["monthly_charges"].num > 7000 THEN 25 ELSE 0)
    - (IF row["contract"] = Str("Two year") THEN 50 ELSE 0)
    - (IF row["contract"] = Str("One year") THEN 30 ELSE 0)
    - (IF row["dependents"] = Str("Yes") THEN 10 ELSE 0)
    - (IF row["tenure_months"].num > 60 THEN 20 ELSE 0)

\* The probabilities the labels are sampled with, and the uniform draws.
sampled(t, rand) ==
    [i \in DOMAIN t.rows |-> [p |-> clip(churn_probability(t.rows[i]), 0, 100), u |-> rand[i]]]

inject_churn_logic(t, rand) ==
    LET with_p == SetColumnAt(t, "churn_probability",
                      LAMBDA i, row : Num(clip(churn_probability(row), 0, 100)))
        with_churn == SetColumnAt(with_p, "churn",
                      LAMBDA i, row :
                          IF rand[i] < row["churn_probability"].num THEN Str("Yes") ELSE Str("No"))
    IN DropColumns(with_churn, {"churn_probability"})

(***************************************************************************)
(* generate_data.py as a process: the three global random generators       *)
(* (Faker, numpy.random, random), seeded once when the module is imported. *)
(* A generator's state is a number and a draw returns the state and steps  *)
(* it; the step is a small full-period congruential one standing for the   *)
(* libraries' Mersenne twisters.  Before seeding the state is the entropy  *)
(* the operating system gave the process.                                  *)
(***************************************************************************)
SEED == 42

next_state(x) == (5 * x + 3) % 64
RECURSIVE advance(_, _)
advance(x, k) == IF k = 0 THEN x ELSE advance(next_state(x), k - 1)

Faker_seed(x, s) == s % 64
random_seed(x, s) == s % 64
\* The module without its np.random.seed(SEED) line.
np_random_seed_skipped(x, s) ==
    x

np_random_seed(x, s) ==
    s % 64

\* A process before the import: nothing defined, the generators on OS entropy.
NewProcess(entropy) ==
    [imported |-> FALSE, fk |-> entropy, np |-> entropy, py |-> entropy,
     draws |-> <<0, 0, 0>>, frame |-> None, n |-> 0, earlier |-> <<0, 0, 0>>,
     outputs |-> <<>>]

\* Lines 1-14: the import seeds the three generators.
import_module(proc) ==
    [proc EXCEPT !.imported = TRUE,
                 !.fk = Faker_seed(@, SEED),
                 !.np = np_random_seed(@, SEED),
                 !.py = random_seed(@, SEED)]

\* random.choice(options) on generator state x.
choice(x, options) == options[(x % Len(options)) + 1]

\* The draws of profile i of a frame started on the process's generator states: one
\* uuid, nine random.choice calls and two numpy draws per profile, in the code's order.
profile_of(proc, i) ==
    LET py(j) == advance(proc.py, 9 * (i - 1) + j - 1)
        np(j) == advance(proc.np, 2 * (i - 1) + j - 1)
    IN [customer_id |-> Str(ToString(advance(proc.fk, i - 1))),
        gender |-> Str(choice(py(1), <<"Male", "Female">>)),
        senior_citizen |-> Num(choice(py(2), <<0, 1>>)),
        partner |-> Str(choice(py(3), <<"Yes", "No">>)),
        dependents |-> Str(choice(py(4), <<"Yes", "No">>)),
        tenure_months |-> Num(1 + (np(1) % 72)),
        multiple_lines |-> Str(choice(py(5), <<"No phone service", "No", "Yes">>)),
        internet_service |-> Str(choice(py(6), <<"DSL", "Fiber optic", "No">>)),
        contract |-> Str(choice(py(7), <<"Month-to-month", "One year", "Two year">>)),
        paperless_billing |-> Str(choice(py(8), <<"Yes", "No">>)),
        payment_method |-> Str(choice(py(9), <<"Electronic check", "Mailed check",
                                               "Bank transfer (automatic)",
                                               "Credit card (automatic)">>)),
        monthly_charges |-> Num(1825 + ((np(2) * 159) % 10051))]

\* generate_customer_profiles(n) in the process: the frame, and the generators stepped.
process_generate(proc, n) ==
    [proc EXCEPT !.frame = generate_customer_profiles([i \in 1..n |-> profile_of(proc, i)]),
                 !.n = n,
                 !.earlier = proc.draws,
                 !.fk = advance(@, n),
                 !.py = advance(@, 9 * n),
                 !.np = advance(@, 2 * n),
                 !.draws = <<@[1] + n, @[2] + 2 * n, @[3] + 9 * n>>]

\* calculate_total_charges: len(df) normal draws of numpy, in tenths of a cent.
process_calculate(proc) ==
    LET n == Len(proc.frame.rows)
        noise == [i \in 1..n |-> (advance(proc.np, i - 1) - 32) * 300]
    IN [proc EXCEPT !.frame = calculate_total_charges(@, noise),
                    !.np = advance(@, n),
                    !.draws = <<@[1], @[2] + n, @[3]>>]

\* inject_churn_logic: len(df) uniform draws of numpy, in hundredths; the frame it
\* returns is the output of the execution.
process_inject(proc) ==
    LET n == Len(proc.frame.rows)
        rand == [i \in 1..n |-> (advance(proc.np, i - 1) * 100) \div 64]
        df_final == inject_churn_logic(proc.frame, rand)
    IN [proc EXCEPT !.frame = None,
                    !.np = advance(@, n),
                    !.draws = <<@[1], @[2] + n, @[3]>>,
                    !.outputs = Append(@, [n |-> proc.n, earlier |-> proc.earlier,
                                           records |-> df_final.rows])]

process_main(proc, n) == process_inject(process_calculate(process_generate(proc, n)))

(***************************************************************************)
(* build_features.py: ChurnFeaturePipeline                                 *)
(***************************************************************************)
\* pd.read_csv / DataFrame.to_csv(index=False): the header and the cells of the
\* table, row by row, in order.
read_csv(file) == Table(file.cols, file.rows)
to_csv(t) == Table(t.cols, t.rows)

\* load_data without its os.path.exists guard, reading a missing file as an empty table.
load_data_unguarded(w) ==
    LET w1 == Enter(w, "load_data")
    IN [w1 EXCEPT !.df = IF w1.disk.raw.some THEN read_csv(w1.disk.raw) ELSE Table(<<>>, <<>>),
                  !.loaded = TRUE]

load_data(w) ==
    LET w1 == Enter(w, "load_data")
    IN IF ~w1.disk.raw.some
       THEN Raise(w1, "FileNotFoundError", "input_path")
       ELSE [w1 EXCEPT !.df = read_csv(w1.disk.raw), !.loaded = TRUE]

\* _generate_tenure_cohorts with <= for <.
_generate_tenure_cohorts_inclusive(months) ==
    IF months <= 12 THEN "0-1 Year"
    ELSE IF months <= 24 THEN "1-2 Years"
    ELSE IF months <= 48 THEN "2-4 Years"
    ELSE "4+ Years"

_generate_tenure_cohorts(months) ==
    IF months < 12 THEN "0-1 Year"
    ELSE IF months < 24 THEN "1-2 Years"
    ELSE IF months < 48 THEN "2-4 Years"
    ELSE "4+ Years"

services ==
    <<"phone_service", "multiple_lines", "internet_service", "online_security",
      "online_backup", "device_protection", "tech_support", "streaming_tv",
      "streaming_movies">>

\* The sentinels the comment of line 54 names: without "No phone service".
NotAService_commented == {"No", "No internet service"}

NotAService == {"No", "No internet service", "No phone service"}

existing_services(t) == SelectSeq(services, LAMBDA col : col \in Columns(t))

total_services(t, row) ==
    Num(Len(SelectSeq(existing_services(t),
                      LAMBDA col : row[col] \notin {Str(x) : x \in NotAService})))

\* The payment methods of the data set, and those whose name contains "automatic".
PaymentMethods ==
    {"Electronic check", "Mailed check", "Bank transfer (automatic)", "Credit card (automatic)"}
ContainsAutomatic(x) == x \in {"Bank transfer (automatic)", "Credit card (automatic)"}
is_auto_payment(row) == IF ContainsAutomatic(row["payment_method"].str) THEN Num(1) ELSE Num(0)

engineering_step(w) ==
    LET w1 == Enter(w, "engineering_step")
        tenure(row) == Str(_generate_tenure_cohorts(row["tenure_months"].num))
        count(t) == SetColumn(t, "total_services", LAMBDA row : total_services(t, row))
    IN IF ~w1.df.some
       THEN Raise(w1, "ValueError", "Dataframe is empty. Run load_data() first.")
       ELSE IF "tenure_months" \notin Columns(w1.df)
       THEN Raise(w1, "KeyError", "tenure_months")
       ELSE LET d1 == count(SetColumn(w1.df, "tenure_group", tenure))
            IN IF "payment_method" \notin Columns(d1)
               THEN Raise([w1 EXCEPT !.df = d1], "KeyError", "payment_method")
               ELSE [w1 EXCEPT !.df = SetColumn(d1, "is_auto_payment", is_auto_payment)]

export_analytical_dataset(w) ==
    LET w1 == Enter(w, "export_analytical_dataset")
    IN IF ~w1.df.some
       THEN Raise(w1, "AttributeError", "'NoneType' object has no attribute 'to_csv'")
       ELSE IF ~w1.disk.out_dir
       THEN Raise(w1, "OSError", "output_dir")
       ELSE [w1 EXCEPT !.disk.analytical = to_csv(w1.df)]

\* The categorical (string-valued) columns, each with its categories in the sorted
\* order pd.get_dummies gives them.
Categories(c) ==
    CASE c = "payment_method" ->
            <<"Bank transfer (automatic)", "Credit card (automatic)", "Electronic check", "Mailed check">>
      [] c = "contract" -> <<"Month-to-month", "One year", "Two year">>
      [] c = "internet_service" -> <<"DSL", "Fiber optic", "No">>
      [] c = "multiple_lines" -> <<"No", "No phone service", "Yes">>
      [] c = "tenure_group" -> <<"0-1 Year", "1-2 Years", "2-4 Years", "4+ Years">>
      [] c = "churn" -> <<"No", "Yes">>
      [] c = "customer_id" -> <<"c1", "c2", "c3", "c4">>
      [] c \in {"gender"} -> <<"Female", "Male">>
      [] c \in {"phone_service", "online_security", "online_backup", "device_protection",
                "tech_support", "streaming_tv", "streaming_movies"} ->
            <<"No", "No internet service", "Yes">>
      [] OTHER -> <<"No", "Yes">>

ColumnValues(t, c) == {t.rows[i][c] : i \in DOMAIN t.rows}
\* pd.get_dummies without drop_first: every present category gets an indicator.
DummyCategories_keep_first(t, c) ==
    SelectSeq(Categories(c), LAMBDA v : Str(v) \in ColumnValues(t, c))

\* The categories of column c present in the table, sorted, without the first.
DummyCategories(t, c) ==
    LET present == SelectSeq(Categories(c), LAMBDA v : Str(v) \in ColumnValues(t, c))
    IN IF present = <<>> THEN <<>> ELSE Tail(present)
DummyName(c, v) == c \o "_" \o v

RECURSIVE Flatten(_)
Flatten(ss) == IF ss = <<>> THEN <<>> ELSE Head(ss) \o Flatten(Tail(ss))

\* pd.get_dummies(t, drop_first=True): the numeric columns stay, in their order; after
\* them every string (object) column, in order, gives one 0/1 indicator per category
\* but the first.
get_dummies(t) ==
    LET IsString(c) == \E i \in DOMAIN t.rows : IsStr(t.rows[i][c])
        kept == SelectSeq(t.cols, LAMBDA c : ~IsString(c))
        strs == SelectSeq(t.cols, IsString)
        Of(c) == [j \in DOMAIN DummyCategories(t, c) |->
                    [col |-> c, cat |-> DummyCategories(t, c)[j], name |-> DummyName(c, DummyCategories(t, c)[j])]]
        dummies == Flatten([i \in DOMAIN strs |-> Of(strs[i])])
        names == kept \o [i \in DOMAIN dummies |-> dummies[i].name]
        cell(row, k) ==
            IF k \in Range(kept) THEN row[k]
            ELSE LET d == dummies[CHOOSE i \in DOMAIN dummies : dummies[i].name = k]
                 IN IF row[d.col] = Str(d.cat) THEN Num(1) ELSE Num(0)
    IN Table(names, [i \in DOMAIN t.rows |-> [k \in Range(names) |-> cell(t.rows[i], k)]])

binarize(x) == IF x = Str("Yes") THEN Num(1) ELSE Num(0)

\* prepare_and_export_ml_dataset binarizing the target in self.df itself.
prepare_and_export_ml_dataset_in_place(w) ==
    LET w1 == Enter(w, "prepare_and_export_ml_dataset")
    IN IF ~w1.df.some
       THEN Raise(w1, "AttributeError", "'NoneType' object has no attribute 'copy'")
       ELSE IF "churn" \notin Columns(w1.df)
       THEN Raise(w1, "KeyError", "churn")
       ELSE LET target == SetColumn(w1.df, "churn", LAMBDA row : binarize(row["churn"]))
                encoded == get_dummies(DropColumns(target, {"customer_id", "tenure_group"}))
            IN IF ~w1.disk.out_dir
               THEN Raise([w1 EXCEPT !.df = target], "OSError", "output_dir")
               ELSE [w1 EXCEPT !.df = target, !.disk.model_input = to_csv(encoded)]

prepare_and_export_ml_dataset(w) ==
    LET w1 == Enter(w, "prepare_and_export_ml_dataset")
    IN IF ~w1.df.some
       THEN Raise(w1, "AttributeError", "'NoneType' object has no attribute 'copy'")
       ELSE LET df_ml == DropColumns(w1.df, {"customer_id", "tenure_group"})
            IN IF "churn" \notin Columns(df_ml)
               THEN Raise(w1, "KeyError", "churn")
               ELSE LET encoded == get_dummies(
                                     SetColumn(df_ml, "churn", LAMBDA row : binarize(row["churn"])))
                    IN IF ~w1.disk.out_dir
                       THEN Raise(w1, "OSError", "output_dir")
                       ELSE [w1 EXCEPT !.disk.model_input = to_csv(encoded)]

run(w) ==
    Then(Then(Then(load_data(Enter(w, "run")), engineering_step), export_analytical_dataset),
         prepare_and_export_ml_dataset)

(***************************************************************************)
(* The inputs: raw files of up to MaxRows customers.                       *)
(***************************************************************************)
FeatureColumns == <<"customer_id", "tenure_months", "payment_method", "churn">>
Customer(id, tenure, payment, churn) ==
    [customer_id |-> Str(id), tenure_months |-> Num(tenure), payment_method |-> Str(payment),
     churn |-> Str(churn)]
Customers ==
    { Customer("c1", 5, "Electronic check", "Yes"),
      Customer("c2", 30, "Credit card (automatic)", "No"),
      Customer("c3", 50, "Mailed check", "Yes"),
      Customer("c4", 12, "Electronic check", "No") }
Project(rows, cols) == [i \in DOMAIN rows |-> [k \in Range(cols) |-> rows[i][k]]]
SubSeqs(s) == {SelectSeq(s, LAMBDA x : x \in S) : S \in SUBSET Range(s)}
RawFiles ==
    {NoFile} \cup
    {Table(cols, Project(rows, cols)) :
        cols \in SubSeqs(FeatureColumns), rows \in SeqsUpTo(Customers, MaxRows) \ {<<>>}}

(***************************************************************************)
(* The feature pipeline: any sequence of calls on one ChurnFeaturePipeline.*)
(***************************************************************************)
World == [df |-> df, disk |-> disk, raised |-> NoError, called |-> <<>>, loaded |-> loaded]

InitPipeline ==
    /\ df = None
    /\ \E raw \in RawFiles, dir \in BOOLEAN :
          disk = [raw |-> raw, out_dir |-> dir, analytical |-> NoFile,
                  model_input |-> NoFile, gold |-> NoFile]
    /\ raised = NoError
    /\ called = <<>>
    /\ loaded = FALSE
    /\ predictor = NewPredictor
    /\ gen = NoGen
    /\ procs = NoProcs
    /\ lib = NoLib

CallLoadData ==
    LET w == load_data(World)
    IN /\ df' = w.df /\ disk' = w.disk /\ raised' = w.raised
       /\ called' = w.called /\ loaded' = w.loaded
       /\ UNCHANGED <<predictor, gen, procs, lib>>

CallEngineeringStep ==
    LET w == engineering_step(World)
    IN /\ df' = w.df /\ disk' = w.disk /\ raised' = w.raised
       /\ called' = w.called /\ loaded' = w.loaded
       /\ UNCHANGED <<predictor, gen, procs, lib>>

CallExportAnalyticalDataset ==
    LET w == export_analytical_dataset(World)
    IN /\ df' = w.df /\ disk' = w.disk /\ raised' = w.raised
       /\ called' = w.called /\ loaded' = w.loaded
       /\ UNCHANGED <<predictor, gen, procs, lib>>

CallPrepareAndExportMlDataset ==
    LET w == prepare_and_export_ml_dataset(World)
    IN /\ df' = w.df /\ disk' = w.disk /\ raised' = w.raised
       /\ called' = w.called /\ loaded' = w.loaded
       /\ UNCHANGED <<predictor, gen, procs, lib>>

CallRun ==
    LET w == run(World)
    IN /\ df' = w.df /\ disk' = w.disk /\ raised' = w.raised
       /\ called' = w.called /\ loaded' = w.loaded
       /\ UNCHANGED <<predictor, gen, procs, lib>>


NextPipeline ==
    \/ CallLoadData
    \/ CallEngineeringStep
    \/ CallExportAnalyticalDataset
    \/ CallPrepareAndExportMlDataset
    \/ CallRun

SpecPipeline == InitPipeline /\ [][NextPipeline]_vars

(***************************************************************************)
(* The model-input export alone: raw files of up to MaxEncoded customers   *)
(* on every contract and on every payment method, so that the categories   *)
(* present in a column, and with them its reference category, vary.        *)
(***************************************************************************)
EncodingColumns ==
    <<"customer_id", "tenure_months", "phone_service", "contract", "payment_method", "churn">>
EncodingCustomers ==
    {[customer_id |-> Str("c1"), tenure_months |-> Num(5), phone_service |-> Str("Yes"),
      contract |-> Str(cp[1]), payment_method |-> Str(cp[2]),
      churn |-> Str(IF cp[1] = "Month-to-month" THEN "Yes" ELSE "No")] :
        cp \in {x \in Range(Categories("contract")) \X PaymentMethods :
                   x[1] = "Month-to-month" \/ x[2] = "Mailed check"}}
EncodingFiles ==
    {Table(EncodingColumns, rows) : rows \in SeqsUpTo(EncodingCustomers, MaxEncoded) \ {<<>>}}

InitEncoding ==
    /\ df = None
    /\ \E raw \in EncodingFiles :
          disk = [raw |-> raw, out_dir |-> TRUE, analytical |-> NoFile,
                  model_input |-> NoFile, gold |-> NoFile]
    /\ raised = NoError
    /\ called = <<>>
    /\ loaded = FALSE
    /\ predictor = NewPredictor
    /\ gen = NoGen
    /\ procs = NoProcs
    /\ lib = NoLib

SpecEncoding == InitEncoding /\ [][NextPipeline]_vars

(***************************************************************************)
(* Feature engineering alone: raw files of one customer, with every tenure *)
(* up to MaxTenure, and with every subset of the service columns present   *)
(* and every value of each.                                                *)
(***************************************************************************)
\* The values of the three service columns the generator writes, and of the add-on
\* columns it does not.
ServiceValues(c) ==
    CASE c = "phone_service" -> {"Yes"}
      [] c = "multiple_lines" -> {"No phone service", "No", "Yes"}
      [] c = "internet_service" -> {"DSL", "Fiber optic", "No"}
      [] OTHER -> {"Yes", "No", "No internet service"}

BaseColumns == <<"partner", "tenure_months", "paperless_billing", "payment_method">>
BaseCustomer ==
    [partner |-> Str("Yes"), tenure_months |-> Num(5), paperless_billing |-> Str("Yes"),
     payment_method |-> Str("Mailed check")]

\* The one-customer files that have any of the first n service columns, with any value.
RECURSIVE WithServices(_)
WithServices(n) ==
    IF n = 0 THEN {Table(BaseColumns, <<BaseCustomer>>)}
    ELSE LET less == WithServices(n - 1)
         IN less \cup {Table(Append(t.cols, services[n]), <<t.rows[1] @@ (services[n] :> Str(v))>>) :
                          t \in less, v \in ServiceValues(services[n])}

EngineeringFiles ==
    WithServices(Len(services))
    \cup {Table(BaseColumns, <<[BaseCustomer EXCEPT !.tenure_months = Num(m)]>>) : m \in 0..MaxTenure}

InitEngineering ==
    /\ df = None
    /\ \E raw \in EngineeringFiles :
          disk = [raw |-> raw, out_dir |-> TRUE, analytical |-> NoFile,
                  model_input |-> NoFile, gold |-> NoFile]
    /\ raised = NoError
    /\ called = <<>>
    /\ loaded = FALSE
    /\ predictor = NewPredictor
    /\ gen = NoGen
    /\ procs = NoProcs
    /\ lib = NoLib

NextEngineering ==
    \/ CallLoadData
    \/ CallEngineeringStep

SpecEngineering == InitEngineering /\ [][NextEngineering]_vars

(***************************************************************************)
(* train_model.py: ChurnPredictor                                          *)
(***************************************************************************)

predictor_load_data(w) ==
    LET w1 == Enter(w, "ChurnPredictor.load_data")
    IN IF ~w1.disk.model_input.some
       THEN Raise(w1, "FileNotFoundError", "input_ml_path")
       ELSE LET w2 == [w1 EXCEPT !.self.df_ml = read_csv(w1.disk.model_input)]
            IN IF ~w2.disk.analytical.some
               THEN Raise(w2, "FileNotFoundError", "input_analytical_path")
               ELSE [w2 EXCEPT !.self.df_analytical = read_csv(w2.disk.analytical)]

\* train_test_split(test_size=0.2): ceil(0.2 * n) test rows, the others train.
n_test(n) == (2 * n + 9) \div 10

train_model(w) ==
    LET w1 == Enter(w, "train_model")
        df_ml == w1.self.df_ml
    IN IF ~df_ml.some
       THEN Raise(w1, "AttributeError", "'ChurnPredictor' object has no attribute 'df_ml'")
       ELSE IF "churn" \notin Columns(df_ml)
       THEN Raise(w1, "KeyError", "churn")
       ELSE LET n == Len(df_ml.rows)
                train == {i \in 1..n : i \notin w1.lib.test_rows}
            IN IF n - n_test(n) = 0
               THEN Raise(w1, "ValueError", "the resulting train set will be empty")
               ELSE [w1 EXCEPT !.self.model =
                        [some |-> TRUE,
                         classes_ |-> {df_ml.rows[i]["churn"] : i \in train},
                         feature_names |-> DropColumns(df_ml, {"churn"}).cols]]

\* np.round(p, 4): to the nearest multiple of 1e-4; a value half way between two goes
\* where its float does (tie_up).
round4(p, tie_up) ==
    LET r == p % 1000
    IN IF r < 500 THEN p - r
       ELSE IF r > 500 \/ tie_up THEN p - r + 1000
       ELSE p - r

\* pd.cut(x, bins=[-1, 0.3, 0.7, 1.0], labels=[...]): right-closed bins.
\* The bins starting at 0 instead of -1.
bins_from_zero ==
    <<0, (3 * Unit) \div 10, (7 * Unit) \div 10, Unit>>
bins == <<0 - Unit, (3 * Unit) \div 10, (7 * Unit) \div 10, Unit>>
labels == <<"Low Risk", "Medium Risk", "High Risk">>
cut_inversed(x) ==
    IF \E b \in 1..3 : bins[b] <= x /\ x < bins[b + 1]
    THEN labels[CHOOSE b \in 1..3 : bins[b] <= x /\ x < bins[b + 1]]
    ELSE "NaN"
cut(x) ==
    IF \E b \in 1..3 : bins[b] < x /\ x <= bins[b + 1]
    THEN labels[CHOOSE b \in 1..3 : bins[b] < x /\ x <= bins[b + 1]]
    ELSE "NaN"

\* np.argmax: a scan that keeps the first maximum.
RECURSIVE argmax_scan(_, _, _)
argmax_scan(v, j, best) ==
    IF j > Len(v) THEN best
    ELSE argmax_scan(v, j + 1, IF v[j] > v[best] THEN j ELSE best)
RECURSIVE argmax_scan_last(_, _, _)
argmax_scan_last(v, j, best) ==
    IF j > Len(v) THEN best
    ELSE argmax_scan_last(v, j + 1, IF v[j] >= v[best] THEN j ELSE best)
argmax_last(v) == argmax_scan_last(v, 2, 1)
argmax(v) == argmax_scan(v, 2, 1)

LOW_RISK == "Bajo Riesgo / N/A"

\* The reason of one customer: lines 91-101.
top_reason(client_shap, feature_names) ==
    LET max_impact_idx == argmax(client_shap)
    IN IF client_shap[max_impact_idx] > 0 THEN feature_names[max_impact_idx] ELSE LOW_RISK

\* str.replace("_", " ").str.title() on the names that can be a reason.
clean_name(name) ==
    CASE name = "tenure_months" -> "Tenure Months"
      [] name = "total_services" -> "Total Services"
      [] name = "is_auto_payment" -> "Is Auto Payment"
      [] name = "payment_method_Credit card (automatic)" -> "Payment Method Credit Card (Automatic)"
      [] name = "payment_method_Electronic check" -> "Payment Method Electronic Check"
      [] name = "payment_method_Mailed check" -> "Payment Method Mailed Check"
      [] name = LOW_RISK -> "Bajo Riesgo / N/A"

\* Lines 68-82: the class-1 matrix of the attribution output, or the IndexError of
\* indexing it.
shap_values_churn(shap_values) ==
    IF shap_values.kind = "list"
    THEN IF Len(shap_values.items) < 2
         THEN [ok |-> FALSE, error |-> "list index out of range"]
         ELSE [ok |-> TRUE, matrix |-> shap_values.items[2]]
    ELSE IF shap_values.ndim # 3
         THEN [ok |-> FALSE, error |-> "too many indices for array"]
         ELSE [ok |-> TRUE,
               matrix |-> [i \in DOMAIN shap_values.data |->
                             [f \in DOMAIN shap_values.data[i] |-> shap_values.data[i][f][2]]]]

generate_predictions_and_explanations(w) ==
    LET w1 == Enter(w, "generate_predictions_and_explanations")
        self == w1.self
    IN IF ~self.df_ml.some
       THEN Raise(w1, "AttributeError", "'ChurnPredictor' object has no attribute 'df_ml'")
       ELSE IF "churn" \notin Columns(self.df_ml)
       THEN Raise(w1, "KeyError", "churn")
       ELSE IF ~self.model.some
       THEN Raise(w1, "AttributeError", "'NoneType' object has no attribute 'predict_proba'")
       ELSE IF Cardinality(self.model.classes_) < 2
       THEN Raise(w1, "IndexError", "index 1 is out of bounds for axis 1 with size 1")
       ELSE
       LET X_all == DropColumns(self.df_ml, {"churn"})
           n == Len(X_all.rows)
           probs == w1.lib.proba
           churn == shap_values_churn(w1.lib.shap_values)
       IN IF ~churn.ok
          THEN Raise(w1, "IndexError", churn.error)
          ELSE IF Len(churn.matrix) < n
          THEN Raise(w1, "IndexError", "index out of bounds for axis 0")
          ELSE IF \E i \in 1..n : Len(churn.matrix[i]) > Len(X_all.cols)
          THEN Raise(w1, "IndexError", "index out of bounds for feature_names")
          ELSE IF ~self.df_analytical.some
          THEN Raise(w1, "AttributeError", "'ChurnPredictor' object has no attribute 'df_analytical'")
          ELSE IF Len(self.df_analytical.rows) # Len(probs) \/ Len(self.df_analytical.rows) # n
          THEN Raise(w1, "ValueError", "Length of values does not match length of index")
          ELSE
          LET top_reasons == [i \in 1..n |-> top_reason(churn.matrix[i], X_all.cols)]
              base == self.df_analytical
              names == base.cols \o SelectSeq(<<"Probability_Churn", "Risk_Segment", "Main_Churn_Reason">>,
                                              LAMBDA c : c \notin Columns(base))
              final(i, k) ==
                  CASE k = "Main_Churn_Reason" -> Str(clean_name(top_reasons[i]))
                    [] k = "Risk_Segment" -> Str(cut(round4(probs[i], w1.lib.tie_up)))
                    [] k = "Probability_Churn" -> Num(round4(probs[i], w1.lib.tie_up))
                    [] OTHER -> base.rows[i][k]
          IN [w1 EXCEPT !.self.df_final =
                 Table(names, [i \in 1..n |-> [k \in Range(names) |-> final(i, k)]])]

save_for_powerbi(w) ==
    LET w1 == Enter(w, "save_for_powerbi")
    IN IF ~w1.self.df_final.some
       THEN Raise(w1, "AttributeError", "'ChurnPredictor' object has no attribute 'df_final'")
       ELSE IF ~w1.disk.out_dir
       THEN Raise(w1, "OSError", "output_dir")
       ELSE [w1 EXCEPT !.disk.gold = to_csv(w1.self.df_final)]

predictor_run(w) ==
    Then(Then(Then(predictor_load_data(Enter(w, "ChurnPredictor.run")), train_model),
              generate_predictions_and_explanations),
         save_for_powerbi)

PredictorWorld ==
    [self |-> predictor, disk |-> disk, lib |-> lib, raised |-> NoError, called |-> <<>>]

CallPredictorLoadData ==
    LET w == predictor_load_data(PredictorWorld)
    IN /\ predictor' = w.self /\ disk' = w.disk /\ raised' = w.raised /\ called' = w.called
       /\ UNCHANGED <<df, loaded, gen, procs, lib>>

CallTrainModel ==
    LET w == train_model(PredictorWorld)
    IN /\ predictor' = w.self /\ disk' = w.disk /\ raised' = w.raised /\ called' = w.called
       /\ UNCHANGED <<df, loaded, gen, procs, lib>>

CallGeneratePredictionsAndExplanations ==
    LET w == generate_predictions_and_explanations(PredictorWorld)
    IN /\ predictor' = w.self /\ disk' = w.disk /\ raised' = w.raised /\ called' = w.called
       /\ UNCHANGED <<df, loaded, gen, procs, lib>>

CallSaveForPowerbi ==
    LET w == save_for_powerbi(PredictorWorld)
    IN /\ predictor' = w.self /\ disk' = w.disk /\ raised' = w.raised /\ called' = w.called
       /\ UNCHANGED <<df, loaded, gen, procs, lib>>

CallPredictorRun ==
    LET w == predictor_run(PredictorWorld)
    IN /\ predictor' = w.self /\ disk' = w.disk /\ raised' = w.raised /\ called' = w.called
       /\ UNCHANGED <<df, loaded, gen, procs, lib>>

(***************************************************************************)
(* The predictor's inputs: the files a feature-pipeline run leaves, and    *)
(* what the libraries return on them.                                      *)
(***************************************************************************)
FreshDisk(raw, dir) ==
    [raw |-> raw, out_dir |-> dir, analytical |-> NoFile, model_input |-> NoFile, gold |-> NoFile]
AfterPipeline(raw) ==
    run([df |-> None, disk |-> FreshDisk(raw, TRUE), raised |-> NoError, called |-> <<>>,
         loaded |-> FALSE])

Splits(n) == {S \in SUBSET (1..n) : Cardinality(S) = n_test(n)}
DefaultProba(n) == [i \in 1..n |-> Unit \div 2]

\* The attribution output in each shape, from the class-1 matrix (class 0 is its negation).
ShapList(m) ==
    [kind |-> "list", items |-> <<[i \in DOMAIN m |-> [f \in DOMAIN m[i] |-> 0 - m[i][f]]], m>>]
ShapArray3(m) ==
    [kind |-> "ndarray", ndim |-> 3,
     data |-> [i \in DOMAIN m |-> [f \in DOMAIN m[i] |-> <<0 - m[i][f], m[i][f]>>]]]
ShapArray2(m) == [kind |-> "ndarray", ndim |-> 2, data |-> m]
ShapList1(m) == [kind |-> "list", items |-> <<m>>]
Shapes(m) == {ShapList(m), ShapArray3(m), ShapArray2(m), ShapList1(m)}

\* Row i of the matrix is v rotated by i - 1 places.
Rotations(v, n) == [i \in 1..n |-> [f \in DOMAIN v |-> v[((f + i - 2) % Len(v)) + 1]]]
DefaultShap(n, k) == ShapList(Rotations([f \in 1..k |-> IF f = 1 THEN 1 ELSE 0], n))

Rows(file) == IF file.some THEN Len(file.rows) ELSE 0
Features(file) == IF file.some THEN Len(DropColumns(file, {"churn"}).cols) ELSE 0

TwoCustomers ==
    {Customer("c1", 5, "Electronic check", "Yes"), Customer("c2", 30, "Credit card (automatic)", "No")}
PredictorRawFiles ==
    {NoFile, Table(<<"tenure_months", "payment_method">>,
                   Project(<<Customer("c1", 5, "Electronic check", "Yes")>>,
                           <<"tenure_months", "payment_method">>))}
    \cup {Table(FeatureColumns, rows) : rows \in SeqsUpTo(TwoCustomers, MaxRows) \ {<<>>}}

FixedRaw ==
    Table(FeatureColumns,
          <<Customer("c1", 5, "Electronic check", "Yes"),
            Customer("c2", 30, "Credit card (automatic)", "No"),
            Customer("c4", 12, "Electronic check", "No")>>)
FixedSplit == {3}

ProbInputs ==
    LET edges == {0, bins[2], bins[3], Unit}
        offsets == UNION {{o - r, o + r} : o \in {-1000, -500, 0, 500, 1000}, r \in 0..ProbRadius}
    IN {p \in {e + o : e \in edges, o \in offsets} : 0 <= p /\ p <= Unit}
       \cup {(k * Unit) \div 10 : k \in 0..10}

AttrValues == (0 - 1)..MaxAttr
Vectors(k) == [1..k -> AttrValues]

DataScenarios ==
    UNION {LET ml == AfterPipeline(raw).disk.model_input
           IN {[raw |-> raw,
                lib |-> [test_rows |-> S, proba |-> DefaultProba(Rows(ml)), tie_up |-> FALSE,
                         shap_values |-> DefaultShap(Rows(ml), Features(ml))]] : S \in Splits(Rows(ml))}
           : raw \in PredictorRawFiles}
RiskScenarios ==
    LET ml == AfterPipeline(FixedRaw).disk.model_input
    IN {[raw |-> FixedRaw,
         lib |-> [test_rows |-> FixedSplit,
                  proba |-> [i \in 1..Rows(ml) |-> IF i = 2 THEN Unit - p ELSE p],
                  tie_up |-> up,
                  shap_values |-> DefaultShap(Rows(ml), Features(ml))]] :
            p \in ProbInputs, up \in BOOLEAN}
ShapScenarios ==
    LET ml == AfterPipeline(FixedRaw).disk.model_input
    IN {[raw |-> FixedRaw,
         lib |-> [test_rows |-> FixedSplit, proba |-> DefaultProba(Rows(ml)), tie_up |-> FALSE,
                  shap_values |-> sv]] :
            sv \in UNION {Shapes(Rotations(v, Rows(ml))) : v \in Vectors(Features(ml))}}

InitPredictor ==
    \E sc \in DataScenarios \cup RiskScenarios \cup ShapScenarios :
        LET w == AfterPipeline(sc.raw)
        IN /\ df = w.df
           /\ disk = w.disk
           /\ raised = w.raised
           /\ called = w.called
           /\ loaded = w.loaded
           /\ predictor = NewPredictor
           /\ gen = NoGen
           /\ procs = NoProcs
           /\ lib = sc.lib

NextPredictor ==
    \/ CallPredictorLoadData
    \/ CallTrainModel
    \/ CallGeneratePredictionsAndExplanations
    \/ CallSaveForPowerbi
    \/ CallPredictorRun

SpecPredictor == InitPredictor /\ [][NextPredictor]_vars

(***************************************************************************)
(* Both stages on one raw file: any sequence of calls on a feature         *)
(* pipeline and a predictor that share the data directory.                 *)
(***************************************************************************)
\* The scenarios whose split holds out the last row (SpecPredictor has every split).
StageScenarios ==
    {sc \in DataScenarios : sc.raw.some => sc.lib.test_rows \subseteq {Len(sc.raw.rows)}}

InitStages ==
    \E sc \in StageScenarios :
        /\ df = None
        /\ disk = FreshDisk(sc.raw, TRUE)
        /\ raised = NoError
        /\ called = <<>>
        /\ loaded = FALSE
        /\ predictor = NewPredictor
        /\ gen = NoGen
        /\ procs = NoProcs
        /\ lib = sc.lib

NextStages == NextPipeline \/ NextPredictor

SpecStages == InitStages /\ [][NextStages]_vars

(***************************************************************************)
(* The generator: main() in a fresh process, or its three functions called *)
(* by hand, each once on the frame, with every draw of the random sources  *)
(* from the sets below.                                                    *)
(***************************************************************************)
TenureAndCharge ==
    {<<1, 1825>>, <<1, 7001>>, <<11, 7000>>, <<12, 7001>>, <<61, 1825>>, <<72, 11875>>}
ProfileDraws ==
    {[customer_id |-> Str("c1"), gender |-> Str("Male"), senior_citizen |-> Num(0),
      partner |-> Str("No"), dependents |-> Str(d), tenure_months |-> Num(tc[1]),
      multiple_lines |-> Str("No"), internet_service |-> Str(i), contract |-> Str(c),
      paperless_billing |-> Str("Yes"), payment_method |-> Str(pm),
      monthly_charges |-> Num(tc[2])] :
        d \in {"Yes", "No"}, tc \in TenureAndCharge, i \in {"DSL", "Fiber optic", "No"},
        c \in {"Month-to-month", "One year", "Two year"}, pm \in PaymentMethods}
NoiseDraws == {0 - 200000, 5, 15000}
UniformDraws == {0, 99}
DrawsFor(S, t) == {s \in SeqsUpTo(S, Len(t.rows)) : Len(s) = Len(t.rows)}
\* The profiles with the largest and the smallest sum of adjustments.
ExtremeProfiles ==
    {d \in ProfileDraws :
        /\ churn_probability(d) \in {110, 0 - 60}
        /\ d["tenure_months"] \in {Num(1), Num(72)}
        /\ d["internet_service"] \in {Str("Fiber optic"), Str("DSL")}
        /\ d["payment_method"] \in {Str("Electronic check"), Str("Mailed check")}}
\* Frames of up to MaxCustomers records: every profile, followed by extreme ones.
Frames ==
    {<<d>> \o more : d \in ProfileDraws, more \in SeqsUpTo(ExtremeProfiles, MaxCustomers - 1)}

InitGenerator ==
    /\ df = None
    /\ disk = FreshDisk(NoFile, TRUE)
    /\ raised = NoError
    /\ called = <<>>
    /\ loaded = FALSE
    /\ predictor = NewPredictor
    /\ gen = NoGen
    /\ procs = NoProcs
    /\ lib = NoLib

CallGenerateCustomerProfiles ==
    /\ ~gen.df.some
    /\ \E draws \in Frames :
          gen' = [df |-> generate_customer_profiles(draws), drawn |-> <<>>]
    /\ called' = <<"generate_customer_profiles">>
    /\ UNCHANGED <<df, disk, raised, loaded, predictor, procs, lib>>

CallCalculateTotalCharges ==
    /\ gen.df.some
    /\ "total_charges" \notin Columns(gen.df)
    /\ \E noise \in DrawsFor(NoiseDraws, gen.df) :
          gen' = [gen EXCEPT !.df = calculate_total_charges(gen.df, noise)]
    /\ called' = <<"calculate_total_charges">>
    /\ UNCHANGED <<df, disk, raised, loaded, predictor, procs, lib>>

CallInjectChurnLogic ==
    /\ gen.df.some
    /\ "churn" \notin Columns(gen.df)
    /\ \E rand \in DrawsFor(UniformDraws, gen.df) :
          gen' = [df |-> inject_churn_logic(gen.df, rand), drawn |-> sampled(gen.df, rand)]
    /\ called' = <<"inject_churn_logic">>
    /\ UNCHANGED <<df, disk, raised, loaded, predictor, procs, lib>>

CallMain ==
    /\ gen = NoGen
    /\ \E draws \in Frames :
          LET df_customers == generate_customer_profiles(draws)
          IN \E noise \in DrawsFor(NoiseDraws, df_customers),
                rand \in DrawsFor(UniformDraws, df_customers) :
                LET df_financials == calculate_total_charges(df_customers, noise)
                    df_final == inject_churn_logic(df_financials, rand)
                IN /\ gen' = [df |-> df_final, drawn |-> sampled(df_financials, rand)]
                   /\ disk' = [disk EXCEPT !.raw = to_csv(df_final)]
    /\ called' = <<"main">>
    /\ UNCHANGED <<df, raised, loaded, predictor, procs, lib>>

NextGenerator ==
    \/ CallGenerateCustomerProfiles
    \/ CallCalculateTotalCharges
    \/ CallInjectChurnLogic
    \/ CallMain

SpecGenerator == InitGenerator /\ [][NextGenerator]_vars

(***************************************************************************)
(* Claims about the generator.                                             *)
(***************************************************************************)
\* C8: every probability a label is sampled with lies in [0,1] (0..100 hundredths), and
\* every total_charges in the generator's frame and in the file it writes is >= 0.
C8_ProbabilityAndChargesInRange ==
    /\ \A i \in DOMAIN gen.drawn : gen.drawn[i].p >= 0 /\ gen.drawn[i].p <= 100
    /\ \A t \in {gen.df, disk.raw} :
          (t.some /\ "total_charges" \in Columns(t))
              => \A i \in DOMAIN t.rows : t.rows[i]["total_charges"].num >= 0
\* A new month-to-month fiber customer paying by electronic check: the sum 1.10 is
\* clipped to 1, and a noise below minus the charge leaves total_charges at 0.
C8_Witness ==
    /\ disk.raw.some
    /\ gen.drawn # <<>>
    /\ churn_probability(disk.raw.rows[1]) = 110
    /\ gen.drawn[1].p = 100
    /\ disk.raw.rows[1]["churn"] = Str("Yes")
    /\ disk.raw.rows[1]["total_charges"] = Num(0)

(***************************************************************************)
(* Two processes that import generate_data.py and run main(), or its three *)
(* functions in main's order, up to MaxExecutions times each.              *)
(***************************************************************************)
Processes == {1, 2}
Entropy == {7, 20}

InitSeeded ==
    /\ df = None
    /\ disk = FreshDisk(NoFile, TRUE)
    /\ raised = NoError
    /\ called = <<>>
    /\ loaded = FALSE
    /\ predictor = NewPredictor
    /\ gen = NoGen
    /\ \E e \in [Processes -> Entropy] : procs = [p \in Processes |-> NewProcess(e[p])]
    /\ lib = NoLib

ImportModule ==
    \E p \in Processes :
        /\ ~procs[p].imported
        /\ procs' = [procs EXCEPT ![p] = import_module(@)]
        /\ called' = <<"import">>
        /\ UNCHANGED <<df, disk, raised, loaded, predictor, gen, lib>>

ProcessGenerateCustomerProfiles ==
    \E p \in Processes, n \in 1..MaxCustomers :
        /\ procs[p].imported
        /\ ~procs[p].frame.some
        /\ Len(procs[p].outputs) < MaxExecutions
        /\ procs' = [procs EXCEPT ![p] = process_generate(@, n)]
        /\ called' = <<"generate_customer_profiles">>
        /\ UNCHANGED <<df, disk, raised, loaded, predictor, gen, lib>>

ProcessCalculateTotalCharges ==
    \E p \in Processes :
        /\ procs[p].frame.some
        /\ "total_charges" \notin Columns(procs[p].frame)
        /\ procs' = [procs EXCEPT ![p] = process_calculate(@)]
        /\ called' = <<"calculate_total_charges">>
        /\ UNCHANGED <<df, disk, raised, loaded, predictor, gen, lib>>

ProcessInjectChurnLogic ==
    \E p \in Processes :
        /\ procs[p].frame.some
        /\ "total_charges" \in Columns(procs[p].frame)
        /\ procs' = [procs EXCEPT ![p] = process_inject(@)]
        /\ called' = <<"inject_churn_logic">>
        /\ UNCHANGED <<df, disk, raised, loaded, predictor, gen, lib>>

ProcessMain ==
    \E p \in Processes, n \in 1..MaxCustomers :
        /\ procs[p].imported
        /\ ~procs[p].frame.some
        /\ Len(procs[p].outputs) < MaxExecutions
        /\ procs' = [procs EXCEPT ![p] = process_main(@, n)]
        /\ disk' = [disk EXCEPT !.raw =
                      Table(ProfileColumns \o <<"total_charges", "churn">>,
                            procs'[p].outputs[Len(procs'[p].outputs)].records)]
        /\ called' = <<"main">>
        /\ UNCHANGED <<df, raised, loaded, predictor, gen, lib>>

NextSeeded ==
    \/ ImportModule
    \/ ProcessGenerateCustomerProfiles
    \/ ProcessCalculateTotalCharges
    \/ ProcessInjectChurnLogic
    \/ ProcessMain

SpecSeeded == InitSeeded /\ [][NextSeeded]_vars

(***************************************************************************)
(* Claims about the seeding.                                               *)
(***************************************************************************)
Executions == UNION {Range(procs[p].outputs) : p \in Processes}

\* C13 (as claimed): any two executions of the chain with the same count N yield the
\* same records, whatever was drawn earlier in the process.
C13_SameSeedSameRecords ==
    \A a, b \in Executions : a.n = b.n => a.records = b.records

\* C13 (amended): two executions of the chain with the same count N, each started after
\* the same number of draws from each of the three generators since the import seeded
\* them (none, for the first execution of a process), yield the same records.
C13_SameSeedSameDrawsSameRecords ==
    \A a, b \in Executions :
        (a.n = b.n /\ a.earlier = b.earlier) => a.records = b.records
\* Two processes started on different entropy have each run the chain twice: their
\* first executions agree, their second executions agree, the first and second differ.
C13_Witness ==
    /\ \A p \in Processes : Len(procs[p].outputs) = 2
    /\ procs[1].outputs[1].earlier = <<0, 0, 0>>
    /\ procs[1].outputs[1].records = procs[2].outputs[1].records
    /\ procs[1].outputs[2].records = procs[2].outputs[2].records
    /\ procs[1].outputs[1].records # procs[1].outputs[2].records
    /\ procs[1].outputs[1].n = procs[1].outputs[2].n

(***************************************************************************)
(* Claims about the feature pipeline.                                      *)
(***************************************************************************)
Entry == IF called = <<>> THEN "" ELSE called[1]
OutputsWritten(d) == {f \in {"analytical", "model_input"} : d[f].some}

\* C2: a run of a stage ends with all of its output files written or none: a run of
\* the feature pipeline that starts with neither output file on disk ends with both
\* files written or with neither.
C2_RunWritesAllOrNothing ==
    [][(called' # <<>> /\ called'[1] = "run" /\ OutputsWritten(disk) = {})
          => OutputsWritten(disk') \in {{}, {"analytical", "model_input"}}]_vars

\* C3: with no file at the input path, load_data raises FileNotFoundError naming the
\* path, self.df stays None, run() ends after load_data alone, and no output file is
\* ever written.
C3_MissingInputAborts ==
    ~disk.raw.some =>
        /\ df = None
        /\ OutputsWritten(disk) = {}
        /\ Entry \in {"load_data", "run"} =>
              /\ raised = Exception("FileNotFoundError", "input_path")
              /\ called \in {<<"load_data">>, <<"run", "load_data">>}
C3_Witness ==
    /\ ~disk.raw.some
    /\ called = <<"run", "load_data">>
    /\ raised.type = "FileNotFoundError"

\* C4: engineering_step raises ValueError exactly when no load_data call has returned
\* normally before it, and then leaves self.df = None; an export step called before a
\* successful load fails with the same precondition error.
C4_PreconditionErrors ==
    /\ Entry = "engineering_step" =>
          /\ (raised.type = "ValueError") <=> ~loaded
          /\ ~loaded => df = None
    /\ (Entry \in {"export_analytical_dataset", "prepare_and_export_ml_dataset"} /\ ~loaded)
          => raised.type = "ValueError"

\* C6: _generate_tenure_cohorts maps every tenure >= 0 to exactly one label, by the
\* intervals [0,12), [12,24), [24,48), [48,inf).
CohortOf(row) ==
    {l \in {"0-1 Year", "1-2 Years", "2-4 Years", "4+ Years"} : row["tenure_group"] = Str(l)}
C6_TenureCohorts ==
    (Entry = "engineering_step" /\ raised = NoError) =>
        \A i \in DOMAIN df.rows :
            LET m == disk.raw.rows[i]["tenure_months"].num
                g == df.rows[i]["tenure_group"].str
            IN /\ Cardinality(CohortOf(df.rows[i])) = 1
               /\ (0 <= m /\ m <= 11) <=> g = "0-1 Year"
               /\ (12 <= m /\ m <= 23) <=> g = "1-2 Years"
               /\ (24 <= m /\ m <= 47) <=> g = "2-4 Years"
               /\ (48 <= m) <=> g = "4+ Years"
C6_Witness ==
    /\ Entry = "engineering_step" /\ raised = NoError
    /\ disk.raw.rows[1]["tenure_months"] = Num(48)
    /\ df.rows[1]["tenure_group"] = Str("4+ Years")

\* C7: total_services is the number of whitelisted service columns present in the
\* table whose value is none of the three sentinels; absent columns raise nothing and
\* count nothing, other columns are never counted.
RECURSIVE ActiveAmong(_, _, _)
ActiveAmong(cols, row, n) ==
    IF n = 0 THEN 0
    ELSE ActiveAmong(cols, row, n - 1)
         + (IF services[n] \notin cols THEN 0
            ELSE IF row[services[n]] = Str("No") THEN 0
            ELSE IF row[services[n]] = Str("No internet service") THEN 0
            ELSE IF row[services[n]] = Str("No phone service") THEN 0
            ELSE 1)
EncodedColumns == {c \in Columns(disk.raw) \ {"customer_id", "churn"} :
                      \E i \in DOMAIN disk.raw.rows : IsStr(disk.raw.rows[i][c])}
Present(c) == {disk.raw.rows[i][c].str : i \in DOMAIN disk.raw.rows}
Position(c, v) == CHOOSE j \in DOMAIN Categories(c) : Categories(c)[j] = v
Reference(c) == CHOOSE v \in Present(c) : \A u \in Present(c) : Position(c, v) <= Position(c, u)
Indicators(c) == {DummyName(c, u) : u \in Present(c) \ {Reference(c)}}
\* Decoding: the category whose indicator is 1, the reference when none is.
Decode(row, c) ==
    LET ones == {u \in Present(c) \ {Reference(c)} : row[DummyName(c, u)] = Num(1)}
    IN IF ones = {} THEN Reference(c) ELSE CHOOSE u \in ones : TRUE

\* C12: in the model-input file every categorical column has one indicator per category
\* present but the reference (the first in sorted order), under distinct names; a row
\* sets exactly the indicator of its own category, the reference category alone is all
\* zeros, and decoding a row gives back the category of the raw record.
C12_OneHotRoundTrip ==
    disk.model_input.some =>
        \A c \in EncodedColumns :
            /\ c \notin Columns(disk.model_input)
            /\ Indicators(c) \subseteq Columns(disk.model_input)
            /\ DummyName(c, Reference(c)) \notin Columns(disk.model_input)
            /\ \A d \in EncodedColumns \ {c} : Indicators(c) \cap Indicators(d) = {}
            /\ Cardinality(Indicators(c)) = Cardinality(Present(c)) - 1
            /\ \A i \in DOMAIN disk.raw.rows :
                  LET v == disk.raw.rows[i][c].str
                      row == disk.model_input.rows[i]
                  IN /\ \A u \in Present(c) \ {Reference(c)} :
                           row[DummyName(c, u)] = (IF u = v THEN Num(1) ELSE Num(0))
                     /\ (v = Reference(c)) <=> (\A n \in Indicators(c) : row[n] = Num(0))
                     /\ Decode(row, c) = v
\* Three customers, none on the first payment method of the domain: the reference is
\* "Electronic check" and the "Mailed check" rows decode from their indicator.
C12_Witness ==
    /\ disk.model_input.some
    /\ Present("payment_method") = {"Electronic check", "Mailed check"}
    /\ Reference("payment_method") = "Electronic check"
    /\ Len(disk.model_input.rows) = 3
    /\ disk.model_input.rows[1]["payment_method_Mailed check"] = Num(0)
    /\ disk.model_input.rows[2]["payment_method_Mailed check"] = Num(1)
    /\ Present("contract") = {"Month-to-month", "One year", "Two year"}
    /\ disk.model_input.rows[3]["contract_Two year"] = Num(1)

(***************************************************************************)
(* Claims about the predictor.                                             *)
(***************************************************************************)
GoldTables == {t \in {predictor.df_final, disk.gold} : t.some}
LastCalled == IF called = <<>> THEN "" ELSE called[Len(called)]

\* C1 (as claimed): the Risk_Segment of a record follows from its model probability p:
\* [0, 0.3] Low Risk, (0.3, 0.7] Medium Risk, (0.7, 1.0] High Risk.
C1_SegmentOfModelProbability ==
    \A t \in GoldTables : \A i \in DOMAIN t.rows :
        LET p == lib.proba[i]
            segment == t.rows[i]["Risk_Segment"].str
        IN /\ (0 <= p /\ p <= 3000000) <=> segment = "Low Risk"
           /\ (3000000 < p /\ p <= 7000000) <=> segment = "Medium Risk"
           /\ (7000000 < p /\ p <= 10000000) <=> segment = "High Risk"

\* C1 (amended): the Risk_Segment of a record follows from the stored Probability_Churn
\* r, the model probability rounded to 4 decimals: [0, 0.3] Low Risk, (0.3, 0.7] Medium
\* Risk, (0.7, 1.0] High Risk; so 0.30 and 0.3000001 are Low Risk, 0.3001 is Medium
\* Risk, 0.70 and 0.7000001 are Medium Risk, 0.7001 is High Risk.
C1_SegmentOfRoundedProbability ==
    \A t \in GoldTables : \A i \in DOMAIN t.rows :
        LET p == lib.proba[i]
            r == t.rows[i]["Probability_Churn"].num
            segment == t.rows[i]["Risk_Segment"].str
        IN /\ r % 1000 = 0 /\ r - p <= 500 /\ p - r <= 500
           /\ (0 <= r /\ r <= 3000000) <=> segment = "Low Risk"
           /\ (3000000 < r /\ r <= 7000000) <=> segment = "Medium Risk"
           /\ (7000000 < r /\ r <= 10000000) <=> segment = "High Risk"
           /\ p \in {3000000, 3000001} => segment = "Low Risk"
           /\ p = 3001000 => segment = "Medium Risk"
           /\ p \in {7000000, 7000001} => segment = "Medium Risk"
           /\ p = 7001000 => segment = "High Risk"
C1_Witness ==
    /\ disk.gold.some
    /\ lib.proba[1] = 3000001
    /\ disk.gold.rows[1]["Probability_Churn"] = Num(3000000)
    /\ disk.gold.rows[1]["Risk_Segment"] = Str("Low Risk")

\* The churn-class attribution vector of record i, read off the library's output.
ChurnClassVector(i) ==
    IF lib.shap_values.kind = "list"
    THEN lib.shap_values.items[Len(lib.shap_values.items)][i]
    ELSE [f \in DOMAIN lib.shap_values.data[i] |-> lib.shap_values.data[i][f][2]]
ModelFeatures == SelectSeq(disk.model_input.cols, LAMBDA c : c # "churn")
Largest(v) == {j \in DOMAIN v : \A k \in DOMAIN v : v[k] <= v[j]}
FirstLargest(v) == CHOOSE j \in Largest(v) : \A k \in Largest(v) : j <= k

\* C5: the reason of a record is the name of the feature with the largest contribution
\* when that contribution is > 0, the first such feature in column order on a tie, and
\* the low-risk sentinel when no contribution is > 0.  (The name is stored with "_"
\* replaced by " " and title-cased.)
C5_MainChurnReason ==
    predictor.df_final.some =>
        \A i \in DOMAIN predictor.df_final.rows :
            LET v == ChurnClassVector(i)
                reason == predictor.df_final.rows[i]["Main_Churn_Reason"].str
            IN IF v[FirstLargest(v)] > 0
               THEN reason = clean_name(ModelFeatures[FirstLargest(v)])
               ELSE reason = "Bajo Riesgo / N/A"
C5_Witness ==
    /\ predictor.df_final.some
    /\ LET v == ChurnClassVector(1)
       IN /\ Cardinality(Largest(v)) = 2
          /\ FirstLargest(v) = 2
          /\ v[2] > 0
          /\ predictor.df_final.rows[1]["Main_Churn_Reason"] = Str(clean_name(ModelFeatures[2]))

\* C9: whatever shape the attribution library returns (a list of per-class matrices, a
\* 3-D array, or another shape such as a single 2-D matrix),
\* generate_predictions_and_explanations does not crash on it: it selects the reasons
\* from the class-1 attributions or reports the mismatch.
ReadyToExplain ==
    /\ predictor.df_ml.some
    /\ predictor.df_analytical.some
    /\ predictor.model.some
    /\ Cardinality(predictor.model.classes_) = 2
C9_ShapeNeverCrashes ==
    (LastCalled = "generate_predictions_and_explanations" /\ ReadyToExplain)
        => raised.type \notin {"IndexError"}

\* C11: a gold table, in memory or on disk, has exactly the N rows of the analytical
\* table in the same order with the analytical columns unchanged, and every row has a
\* Probability_Churn in [0,1], one of the three Risk_Segment labels and a
\* Main_Churn_Reason that is a feature name (cleaned for display) or the sentinel.
C11_GoldTableComplete ==
    \A t \in GoldTables :
        /\ disk.analytical.some /\ disk.raw.some
        /\ Len(t.rows) = Len(disk.raw.rows)
        /\ Len(t.rows) = Len(disk.analytical.rows)
        /\ \A i \in DOMAIN t.rows :
              /\ \A k \in Columns(disk.analytical) : t.rows[i][k] = disk.analytical.rows[i][k]
              /\ DOMAIN t.rows[i]["Probability_Churn"] = {"num"}
              /\ t.rows[i]["Probability_Churn"].num >= 0
              /\ t.rows[i]["Probability_Churn"].num <= Unit
              /\ IsStr(t.rows[i]["Risk_Segment"])
              /\ t.rows[i]["Risk_Segment"].str \in Range(labels)
              /\ t.rows[i]["Main_Churn_Reason"]
                    \in {Str(clean_name(f)) : f \in Range(ModelFeatures) \cup {LOW_RISK}}
C11_Witness ==
    /\ disk.gold.some
    /\ Len(disk.gold.rows) = 3
    /\ disk.gold.rows[1]["Probability_Churn"] = Num(0)
    /\ disk.gold.rows[1]["Risk_Segment"] = Str("Low Risk")
    /\ disk.gold.rows[2]["Probability_Churn"] = Num(Unit)
    /\ disk.gold.rows[2]["Risk_Segment"] = Str("High Risk")
    /\ disk.gold.rows[2]["customer_id"] = disk.analytical.rows[2]["customer_id"]

(***************************************************************************)
(* Claims about both stages.                                               *)
(***************************************************************************)
ChurnColumn(t) == [i \in DOMAIN t.rows |-> t.rows[i]["churn"]]
LabelledTables ==
    {t \in {df, disk.analytical, predictor.df_analytical, predictor.df_final, disk.gold} : t.some}

\* C10: the churn label of a record is never changed: the pipeline's table, the
\* analytical table and the gold table carry, row for row, the Yes/No label of the raw
\* input; the model-input table carries it as 1/0 without customer_id and tenure_group;
\* and an export changes neither self.df nor the other export's file.
C10_LabelNeverChanged ==
    /\ []((disk.raw.some /\ "churn" \in Columns(disk.raw)) =>
            /\ \A t \in LabelledTables : ChurnColumn(t) = ChurnColumn(disk.raw)
            /\ disk.model_input.some =>
                  /\ ChurnColumn(disk.model_input)
                        = [i \in DOMAIN disk.raw.rows |->
                             IF disk.raw.rows[i]["churn"] = Str("Yes") THEN Num(1) ELSE Num(0)]
                  /\ Columns(disk.model_input) \cap {"customer_id", "tenure_group"} = {})
    /\ [][/\ (called' # <<>> /\ called'[1] = "prepare_and_export_ml_dataset")
               => (df' = df /\ disk'.analytical = disk.analytical)
          /\ (called' # <<>> /\ called'[1] = "export_analytical_dataset")
               => (df' = df /\ disk'.model_input = disk.model_input)]_vars
C10_Witness ==
    /\ disk.gold.some
    /\ disk.model_input.some
    /\ ChurnColumn(disk.raw) = <<Str("Yes"), Str("No"), Str("Yes")>>
    /\ ChurnColumn(disk.gold) = <<Str("Yes"), Str("No"), Str("Yes")>>
    /\ ChurnColumn(disk.model_input) = <<Num(1), Num(0), Num(1)>>

====
